---- MODULE Spec2Model ----
(***************************************************************************)
(* Model of array_pilot.py: the five array generators                      *)
(* (create_hexagonal_array, create_rectangular_array,                      *)
(* create_sunflower_array, create_circular_array, create_octagonal_array)  *)
(* and the ArrayGeneratorUI handlers that call them.                       *)
(*                                                                         *)
(* Cell values: 1 -> "Active", np.nan -> "Empty", 0 -> "Passive".          *)
(*                                                                         *)
(* empty_fraction is carried as an integer number of percent (the UI       *)
(* computes slider.value() / 100); the values used are multiples of 25,    *)
(* which binary floating point represents exactly, so that                 *)
(* int(n * empty_fraction) is the truncated quotient (n * pct) / 100.      *)
(* radius and side_length are integers, as the UI's spin boxes give them.  *)
(***************************************************************************)
EXTENDS Integers, FiniteSets, Sequences, TLC

\* ------------------------------------------------------------- bounds
MaxDim == 3          \* rows, columns of a rectangular call
MaxRadius == 3       \* radius of a hexagonal call without randomize
MaxRandRadius == 1   \* radius of a hexagonal call with randomize
MaxGrid == 6         \* grid_size of a circular/octagonal/sunflower call
MaxRandGrid == 3     \* grid_size of a circular/octagonal call with randomize
MaxShape == 3        \* radius (circular, sunflower) and side_length (octagonal)
MaxRandShape == 1    \* radius / side_length of a circular/octagonal call with randomize
MaxPoints == 2       \* n_points of a sunflower call
MaxSpin == 2         \* largest value entered in a spin box of the UI

\* empty_fraction in percent: -0.25, 0, 0.25, 0.5, 1.0, 1.25
Pcts == {-25, 0, 25, 50, 100, 125}

\* Positions of the empty-fraction slider (range 0 .. 100) the user picks.
SliderValues == {0, 100}

VARIABLES
    call,    \* the generator call under way: function name and arguments
    pc,      \* "call" before the generator has run, "done" after
    ret,     \* what the call produced: a grid, None, or a raised exception
    \* ArrayGeneratorUI
    array_type,             \* array_type_combo.currentText()
    spins,                  \* value of each spin box; 0: no such widget
    randomize_check,        \* randomize_check.isChecked()
    passive_cell_radio,     \* [checked, enabled] of the Passive Cell box
    empty_fraction_slider,  \* empty_fraction_slider.value()
    array,                  \* self.array
    printed,                \* the array the last handler printed, or Nothing
    error,                  \* the exception the last handler raised, or "none"
    last,                   \* the handler that ran last
    previewed               \* the grid preview_array stored since the last
                            \* array-type change, Nothing if none

genVars == <<call, pc, ret>>
uiVars == <<array_type, spins, randomize_check, passive_cell_radio,
            empty_fraction_slider, array, printed, error, last, previewed>>
vars == <<call, pc, ret, array_type, spins, randomize_check,
          passive_cell_radio, empty_fraction_slider, array, printed, error,
          last, previewed>>

\* ------------------------------------------------------------ helpers

Max(a, b) == IF a >= b THEN a ELSE b
Abs(a) == IF a >= 0 THEN a ELSE -a

\* Mutant of PyInt: the quotient rounded up instead of truncated.
PyIntCeil(a, b) == IF a >= 0 THEN (a + b - 1) \div b ELSE -((-a) \div b)

\* Python's int(x) on a quotient a/b with b > 0: truncation toward zero.
PyInt(a, b) == IF a >= 0 THEN a \div b ELSE -((-a) \div b)

\* The index set of an np array of shape (rows, cols).
Indices(rows, cols) == (0 .. rows - 1) \X (0 .. cols - 1)

\* What a call can produce.
Grid(rows, cols, cells) ==
    [kind |-> "grid", rows |-> rows, cols |-> cols, cells |-> cells]
NoneResult == [kind |-> "None", rows |-> 0, cols |-> 0, cells |-> << >>]
Raised(exc) == [kind |-> exc, rows |-> 0, cols |-> 0, cells |-> << >>]

\* Mutants of Demoted: the passive flag ignored, either way.
DemotedAlwaysEmpty(passive) == "Empty"
DemotedAlwaysPassive(passive) == "Passive"

\* The value written to a demoted cell: 0 if passive else np.nan.
Demoted(passive) == IF passive THEN "Passive" ELSE "Empty"

\* The subsets of 0 .. n-1 with exactly k elements.
RECURSIVE KSubsets(_, _)
KSubsets(n, k) ==
    IF k = 0 THEN {{}}
    ELSE IF k > n THEN {}
    ELSE KSubsets(n - 1, k) \cup {s \cup {n - 1} : s \in KSubsets(n - 1, k - 1)}

\* np.random.choice(a, size, replace=False): every set of `size` distinct
\* indices below `a` is a possible sample; ok = FALSE stands for the
\* ValueError it raises on a negative size and on a size above the
\* population.  With a = 0 and size = 0 the numpy release decides: an empty
\* sample, or a raise.
Sample(s) == [ok |-> TRUE, sample |-> s]
SampleError == [ok |-> FALSE, sample |-> {}]
RandomChoice(a, size) ==
    IF size > a \/ size < 0 THEN {SampleError}
    ELSE IF a = 0 THEN {Sample({}), SampleError}
    ELSE {Sample(s) : s \in KSubsets(a, size)}

\* The possible values of `np.random.rand() < empty_fraction`, rand() being
\* uniform on [0, 1).
RandBelow(pct) ==
    IF pct <= 0 THEN {FALSE}
    ELSE IF pct >= 100 THEN {TRUE}
    ELSE BOOLEAN

\* ------------------------------------------------- create_hexagonal_array

\* Mutant of HexEnd: the lower rows are not tapered.
HexEndUntapered(radius, i) == 2 * radius + 1

\* start = max(0, radius - i) and end = size - max(0, i - radius) of row i.
HexStart(radius, i) == Max(0, radius - i)
HexEnd(radius, i) == (2 * radius + 1) - Max(0, i - radius)

\* cell_positions after rows 0 .. n-1 of the fill loop: each row extends the
\* list by [(i, j) for j in range(start, end)].
RECURSIVE CellPositions(_, _)
CellPositions(radius, n) ==
    IF n <= 0 THEN << >>
    ELSE LET i == n - 1
             start == HexStart(radius, i)
             end == HexEnd(radius, i)
         IN  CellPositions(radius, n - 1)
                \o [k \in 1 .. Max(0, end - start) |-> <<i, start + k - 1>>]

\* hex_array after the fill loop: hex_array[i, start:end] = 1 on np.nan.
HexFill(radius) ==
    LET size == 2 * radius + 1
    IN  [p \in Indices(size, size) |->
           IF HexStart(radius, p[1]) <= p[2] /\ p[2] < HexEnd(radius, p[1])
           THEN "Active" ELSE "Empty"]

create_hexagonal_array(radius, randomize, empty_fraction, passive) ==
    LET size == 2 * radius + 1
        cell_positions == CellPositions(radius, size)
        hex_array == HexFill(radius)
    IN  IF size < 0 THEN {Raised("ValueError")}
        ELSE IF ~randomize THEN {Grid(size, size, hex_array)}
        ELSE LET num_empty_cells ==
                     PyInt(Len(cell_positions) * empty_fraction, 100)
             IN  { IF ~empty_positions.ok
                   THEN Raised("ValueError")
                   ELSE Grid(size, size,
                             [p \in Indices(size, size) |->
                                IF \E idx \in empty_positions.sample :
                                     cell_positions[idx + 1] = p
                                THEN Demoted(passive) ELSE hex_array[p]])
                   : empty_positions \in
                        RandomChoice(Len(cell_positions), num_empty_cells) }

\* ------------------------------------------------- create_rectangular_array

create_rectangular_array(rows, columns, randomize, empty_fraction, passive) ==
    IF rows < 0 \/ columns < 0 THEN {Raised("ValueError")}
    ELSE IF ~randomize
    THEN {Grid(rows, columns, [p \in Indices(rows, columns) |-> "Active"])}
    ELSE LET num_cells == rows * columns
             num_empty_cells == PyInt(num_cells * empty_fraction, 100)
         IN  { IF ~empty_positions.ok
               THEN Raised("ValueError")
               ELSE Grid(rows, columns,
                         [p \in Indices(rows, columns) |->
                            IF \E pos \in empty_positions.sample :
                                 p = <<pos \div columns, pos % columns>>
                            THEN Demoted(passive) ELSE "Active"])
               : empty_positions \in RandomChoice(num_cells, num_empty_cells) }

\* --------------------------------------------------- create_sunflower_array

\* Mutant of create_sunflower_array: the cell is demoted as the other
\* generators demote, on the draw alone (0 if passive else np.nan).
create_sunflower_array_demoting(n_points, radius, grid_size, randomize, empty_fraction, passive) ==
    LET center == grid_size \div 2
        inside == 0 <= center /\ center < grid_size
        draws == IF randomize /\ inside THEN {d \in BOOLEAN : d \/ empty_fraction < 100}
                 ELSE {FALSE}
    IN  IF grid_size < 0 THEN {[kind |-> "ValueError", rows |-> 0, cols |-> 0, cells |-> << >>]}
        ELSE IF n_points <= 0 THEN {[kind |-> "None", rows |-> 0, cols |-> 0, cells |-> << >>]}
        ELSE { [kind |-> "grid", rows |-> grid_size, cols |-> grid_size,
                cells |-> [p \in (0 .. grid_size - 1) \X (0 .. grid_size - 1) |->
                             IF inside /\ p = <<center, center>>
                             THEN (IF randomize /\ draw
                                   THEN (IF passive THEN "Passive" ELSE "Empty")
                                   ELSE "Active")
                             ELSE "Empty"]]
               : draw \in draws }

\* The loop body runs for i = 0 and returns: r = radius * sqrt(0 / n_points)
\* = 0, theta = 0, x = y = 0, so row = col = int(round(center + 0)) = center.
\* With n_points <= 0 the loop body never runs and the function falls off
\* its end, returning None.
create_sunflower_array(n_points, radius, grid_size, randomize, empty_fraction, passive) ==
    LET center == grid_size \div 2
        row == center
        col == center
        inside == 0 <= row /\ row < grid_size /\ 0 <= col /\ col < grid_size
        draws == IF randomize /\ inside THEN RandBelow(empty_fraction)
                 ELSE {FALSE}
    IN  IF grid_size < 0 THEN {Raised("ValueError")}
        ELSE IF n_points <= 0 THEN {NoneResult}
        ELSE { Grid(grid_size, grid_size,
                    [p \in Indices(grid_size, grid_size) |->
                       IF inside /\ p = <<row, col>>
                       THEN (IF randomize /\ draw /\ passive
                             THEN "Passive" ELSE "Active")
                       ELSE "Empty"])
               : draw \in draws }

\* ---------------------------------------------------- create_circular_array

\* Mutant of CircularInside: distance < radius.
CircularInsideStrict(grid_size, radius, p) ==
    LET center == grid_size \div 2
    IN  /\ radius >= 0
        /\ (p[1] - center) * (p[1] - center)
             + (p[2] - center) * (p[2] - center) < radius * radius

\* distance <= radius, distance = sqrt((i-center)^2 + (j-center)^2): for an
\* integer radius >= 0 the correctly rounded square root compares as the
\* squares do.
CircularInside(grid_size, radius, p) ==
    LET center == grid_size \div 2
    IN  /\ radius >= 0
        /\ (p[1] - center) * (p[1] - center)
             + (p[2] - center) * (p[2] - center) <= radius * radius

\* The per-cell branch shared by the circular and octagonal loops:
\* if randomize and rand() < empty_fraction: 0 if passive else nan; else 1.
BernoulliCell(randomize, draw, passive) ==
    IF randomize /\ draw THEN Demoted(passive) ELSE "Active"

\* One draw of rand() < empty_fraction for every cell the loop tests.
Draws(region, randomize, empty_fraction) ==
    IF randomize THEN [region -> RandBelow(empty_fraction)]
    ELSE {[p \in region |-> FALSE]}

create_circular_array(grid_size, radius, randomize, empty_fraction, passive) ==
    LET region == {p \in Indices(grid_size, grid_size) :
                     CircularInside(grid_size, radius, p)}
    IN  IF grid_size < 0 THEN {Raised("ValueError")}
        ELSE { Grid(grid_size, grid_size,
                    [p \in Indices(grid_size, grid_size) |->
                       IF p \in region
                       THEN BernoulliCell(randomize, draw[p], passive)
                       ELSE "Empty"])
               : draw \in Draws(region, randomize, empty_fraction) }

\* --------------------------------------------------- create_octagonal_array

\* d <= side_length * (1 + sqrt(2)/2) for integers d, side_length >= 0:
\* d - s <= s*sqrt(2)/2, i.e. d <= s or 2*(d-s)^2 <= s^2.  sqrt(2) is
\* irrational, so the bound is never met exactly for s > 0 and the floating
\* point comparison agrees with the exact one.
WithinDiamond(d, side_length) ==
    /\ side_length >= 0
    /\ \/ d <= side_length
       \/ 2 * (d - side_length) * (d - side_length) <= side_length * side_length

\* d <= side_length * sqrt(2) for integers d, side_length >= 0: d^2 <= 2*s^2.
WithinSquare(d, side_length) ==
    /\ side_length >= 0
    /\ d * d <= 2 * side_length * side_length

\* Mutant of OctagonalInside: the square bound is left out.
OctagonalInsideDiamondOnly(grid_size, side_length, p) ==
    LET center == grid_size \div 2
        x_dist == IF p[1] >= center THEN p[1] - center ELSE center - p[1]
        y_dist == IF p[2] >= center THEN p[2] - center ELSE center - p[2]
    IN  /\ side_length >= 0
        /\ \/ x_dist + y_dist <= side_length
           \/ 2 * (x_dist + y_dist - side_length) * (x_dist + y_dist - side_length)
                <= side_length * side_length

OctagonalInside(grid_size, side_length, p) ==
    LET center == grid_size \div 2
        x_dist == Abs(p[1] - center)
        y_dist == Abs(p[2] - center)
    IN  /\ WithinDiamond(x_dist + y_dist, side_length)
        /\ WithinSquare(Max(x_dist, y_dist), side_length)

create_octagonal_array(grid_size, side_length, randomize, empty_fraction, passive) ==
    LET region == {p \in Indices(grid_size, grid_size) :
                     OctagonalInside(grid_size, side_length, p)}
    IN  IF grid_size < 0 THEN {Raised("ValueError")}
        ELSE { Grid(grid_size, grid_size,
                    [p \in Indices(grid_size, grid_size) |->
                       IF p \in region
                       THEN BernoulliCell(randomize, draw[p], passive)
                       ELSE "Empty"])
               : draw \in Draws(region, randomize, empty_fraction) }

\* ------------------------------------------------------------ generator calls

\* A call of one generator with its arguments; the arguments a generator
\* does not take are 0.
Call(fn, rows, columns, radius, grid_size, side_length, n_points, randomize, empty_fraction, passive) ==
    [fn |-> fn, rows |-> rows, columns |-> columns, radius |-> radius,
     grid_size |-> grid_size, side_length |-> side_length,
     n_points |-> n_points, randomize |-> randomize,
     empty_fraction |-> empty_fraction, passive |-> passive]

NoCall == Call("none", 0, 0, 0, 0, 0, 0, FALSE, 0, FALSE)

\* The possible results of the call under way.
Results(c) ==
    CASE c.fn = "rectangular" ->
           create_rectangular_array(c.rows, c.columns, c.randomize,
                                    c.empty_fraction, c.passive)
      [] c.fn = "hexagonal" ->
           create_hexagonal_array(c.radius, c.randomize, c.empty_fraction,
                                  c.passive)
      [] c.fn = "circular" ->
           create_circular_array(c.grid_size, c.radius, c.randomize,
                                 c.empty_fraction, c.passive)
      [] c.fn = "octagonal" ->
           create_octagonal_array(c.grid_size, c.side_length, c.randomize,
                                  c.empty_fraction, c.passive)
      [] c.fn = "sunflower" ->
           create_sunflower_array(c.n_points, c.radius, c.grid_size,
                                  c.randomize, c.empty_fraction, c.passive)

\* ---------------------------------------------------------- ArrayGeneratorUI

ArrayTypes == {"Rectangular", "Circular", "Octagonal", "Hexagonal", "Sunflower"}

\* self.array = []
EmptyList == [kind |-> "list", rows |-> 0, cols |-> 0, cells |-> << >>]
\* Nothing printed, nothing previewed.
Nothing == [kind |-> "nothing", rows |-> 0, cols |-> 0, cells |-> << >>]

\* The spin boxes update_inputs creates for an array type.
SpinsOf(type) ==
    CASE type = "Hexagonal" -> {"radius"}
      [] type = "Rectangular" -> {"rows", "columns"}
      [] type = "Sunflower" -> {"n_points", "radius", "grid_size"}
      [] type = "Circular" -> {"radius", "grid_size"}
      [] type = "Octagonal" -> {"side_length", "grid_size"}

SpinNames == {"rows", "columns", "radius", "grid_size", "side_length", "n_points"}

\* update_inputs: the old form's widgets are deleted, the new type's spin
\* boxes are created (a new QSpinBox with range 1 .. 500 holds 1).
NewSpins(type) == [n \in SpinNames |-> IF n \in SpinsOf(type) THEN 1 ELSE 0]

\* len(self.array) == 0: an empty list, or an array whose first dimension is 0.
LenIsZero(a) == a.kind = "list" \/ (a.kind = "grid" /\ a.rows = 0)

\* The generator call each handler's branch for the array type makes.
TypeCall(type, randomize, empty_fraction, passive_cell) ==
    CASE type = "Hexagonal" ->
           Call("hexagonal", 0, 0, spins.radius, 0, 0, 0,
                randomize, empty_fraction, passive_cell)
      [] type = "Rectangular" ->
           Call("rectangular", spins.rows, spins.columns, 0, 0, 0, 0,
                randomize, empty_fraction, passive_cell)
      [] type = "Sunflower" ->
           Call("sunflower", 0, 0, spins.radius, spins.grid_size, 0,
                spins.n_points, randomize, empty_fraction, passive_cell)
      [] type = "Circular" ->
           Call("circular", 0, 0, spins.radius, spins.grid_size, 0, 0,
                randomize, empty_fraction, passive_cell)
      [] type = "Octagonal" ->
           Call("octagonal", 0, 0, 0, spins.grid_size, spins.side_length, 0,
                randomize, empty_fraction, passive_cell)

\* generate_array's calls: the Sunflower branch passes air_gap_prob=, a
\* keyword create_sunflower_array does not take, so the call raises TypeError
\* before the function body runs.
GenerateResults(c) ==
    IF c.fn = "sunflower" THEN {Raised("TypeError")} ELSE Results(c)

\* preview_array's calls pass empty_fraction= throughout.
PreviewResults(c) == Results(c)

\* True once the generator's result was assigned to self.array.
Assigned(r) == r.kind \in {"grid", "None"}
ErrorOf(r) == IF Assigned(r) THEN "none" ELSE r.kind

UIConstructed ==
    /\ array_type = "Rectangular"
    /\ spins = NewSpins("Rectangular")
    /\ randomize_check = FALSE
    /\ passive_cell_radio = [checked |-> FALSE, enabled |-> FALSE]
    /\ empty_fraction_slider = 0
    /\ array = EmptyList
    /\ printed = Nothing
    /\ error = "none"
    /\ last = "__init__"
    /\ previewed = Nothing

\* The user picks another entry of array_type_combo: currentIndexChanged
\* runs update_inputs.
update_inputs ==
    \E t \in ArrayTypes \ {array_type} :
        /\ array_type' = t
        /\ spins' = NewSpins(t)
        /\ array' = EmptyList
        /\ previewed' = Nothing
        /\ last' = "update_inputs"
        /\ error' = "none"
        /\ call' = NoCall
        /\ ret' = NoneResult
        /\ printed' = Nothing
        /\ UNCHANGED <<pc, randomize_check, passive_cell_radio,
                       empty_fraction_slider>>

\* The user sets a spin box of the current form.
SetSpin ==
    \E n \in SpinsOf(array_type), v \in 1 .. MaxSpin :
        /\ spins[n] # v
        /\ spins' = [spins EXCEPT ![n] = v]
        /\ last' = "set_spin"
        /\ error' = "none"
        /\ call' = NoCall
        /\ ret' = NoneResult
        /\ printed' = Nothing
        /\ UNCHANGED <<pc, array_type, randomize_check, passive_cell_radio,
                       empty_fraction_slider, array, previewed>>

\* Mutant of toggle_empty_fraction: the else branch disables the Passive
\* Cell box without unchecking it (no setChecked(False)).
toggle_empty_fraction_keeps_checked ==
    /\ randomize_check' = ~randomize_check
    /\ passive_cell_radio' =
          [passive_cell_radio EXCEPT !.enabled = randomize_check']
    /\ last' = "toggle_empty_fraction"
    /\ error' = "none"
    /\ call' = NoCall
    /\ ret' = NoneResult
    /\ printed' = Nothing
    /\ UNCHANGED <<pc, array_type, spins, empty_fraction_slider, array,
                   previewed>>

\* The user clicks Randomize: stateChanged runs toggle_empty_fraction.
toggle_empty_fraction ==
    /\ randomize_check' = ~randomize_check
    /\ passive_cell_radio' =
          IF randomize_check'
          THEN [passive_cell_radio EXCEPT !.enabled = TRUE]
          ELSE [checked |-> FALSE, enabled |-> FALSE]
    /\ last' = "toggle_empty_fraction"
    /\ error' = "none"
    /\ call' = NoCall
    /\ ret' = NoneResult
    /\ printed' = Nothing
    /\ UNCHANGED <<pc, array_type, spins, empty_fraction_slider, array,
                   previewed>>

\* The user clicks Passive Cell; a disabled check box ignores the click.
ClickPassive ==
    /\ passive_cell_radio.enabled
    /\ passive_cell_radio' =
          [passive_cell_radio EXCEPT !.checked = ~passive_cell_radio.checked]
    /\ last' = "click_passive"
    /\ error' = "none"
    /\ call' = NoCall
    /\ ret' = NoneResult
    /\ printed' = Nothing
    /\ UNCHANGED <<pc, array_type, spins, randomize_check,
                   empty_fraction_slider, array, previewed>>

\* The user moves the slider, shown only while Randomize is checked
\* (update_empty_fraction_label only rewrites the label).
MoveSlider ==
    \E v \in SliderValues \ {empty_fraction_slider} :
        /\ randomize_check
        /\ empty_fraction_slider' = v
        /\ last' = "update_empty_fraction_label"
        /\ error' = "none"
        /\ call' = NoCall
        /\ ret' = NoneResult
        /\ printed' = Nothing
        /\ UNCHANGED <<pc, array_type, spins, randomize_check,
                       passive_cell_radio, array, previewed>>

\* Mutant of generate_array: the generator is called whether or not
\* self.array is empty.
generate_array_uncached ==
    LET c == TypeCall(array_type, randomize_check, empty_fraction_slider,
                      passive_cell_radio.checked)
    IN  /\ \E r \in GenerateResults(c) :
              /\ call' = c
              /\ ret' = r
              /\ array' = IF Assigned(r) THEN r ELSE array
              /\ printed' = IF Assigned(r) THEN r ELSE Nothing
              /\ error' = ErrorOf(r)
        /\ last' = "generate_array"
        /\ UNCHANGED <<pc, array_type, spins, randomize_check,
                       passive_cell_radio, empty_fraction_slider, previewed>>

\* Generate Array: calls the generator only if len(self.array) == 0, then
\* prints self.array.  A raise leaves self.array as it was and prints no array.
generate_array ==
    LET c == TypeCall(array_type, randomize_check, empty_fraction_slider,
                      passive_cell_radio.checked)
    IN  /\ IF array.kind = "None"
           THEN /\ call' = NoCall
                /\ ret' = NoneResult
                /\ error' = "TypeError"
                /\ printed' = Nothing
                /\ UNCHANGED array
           ELSE IF LenIsZero(array)
           THEN \E r \in GenerateResults(c) :
                   /\ call' = c
                   /\ ret' = r
                   /\ array' = IF Assigned(r) THEN r ELSE array
                   /\ printed' = IF Assigned(r) THEN r ELSE Nothing
                   /\ error' = ErrorOf(r)
           ELSE /\ call' = NoCall
                /\ ret' = NoneResult
                /\ printed' = array
                /\ error' = "none"
                /\ UNCHANGED array
        /\ last' = "generate_array"
        /\ UNCHANGED <<pc, array_type, spins, randomize_check,
                       passive_cell_radio, empty_fraction_slider, previewed>>

\* Preview: always calls the generator and stores its result in self.array,
\* then draws it (the drawing loop reads self.array.shape, which None does
\* not have; the scene's items are not part of the model's state).
preview_array ==
    LET c == TypeCall(array_type, randomize_check, empty_fraction_slider,
                      passive_cell_radio.checked)
    IN  /\ \E r \in PreviewResults(c) :
              /\ call' = c
              /\ ret' = r
              /\ array' = IF Assigned(r) THEN r ELSE array
              /\ previewed' = IF Assigned(r) THEN r ELSE previewed
              /\ error' = IF r.kind = "None" THEN "AttributeError"
                          ELSE ErrorOf(r)
        /\ printed' = Nothing
        /\ last' = "preview_array"
        /\ UNCHANGED <<pc, array_type, spins, randomize_check,
                       passive_cell_radio, empty_fraction_slider>>

\* ---------------------------------------------------- specification (calls)

RectangularCalls ==
    { Call("rectangular", r, c, 0, 0, 0, 0, rnd, ef, pas) :
        r \in -1 .. MaxDim, c \in 0 .. MaxDim,
        rnd \in BOOLEAN, ef \in Pcts, pas \in BOOLEAN }

HexagonalCalls ==
    { c \in { Call("hexagonal", 0, 0, rad, 0, 0, 0, rnd, ef, pas) :
                rad \in -1 .. MaxRadius,
                rnd \in BOOLEAN, ef \in Pcts, pas \in BOOLEAN } :
        c.randomize => c.radius <= MaxRandRadius }

CircularCalls ==
    { c \in { Call("circular", 0, 0, rad, gs, 0, 0, rnd, ef, pas) :
                rad \in 0 .. MaxShape, gs \in -1 .. MaxGrid,
                rnd \in BOOLEAN, ef \in Pcts, pas \in BOOLEAN } :
        c.randomize => (c.grid_size <= MaxRandGrid /\ c.radius <= MaxRandShape) }

OctagonalCalls ==
    { c \in { Call("octagonal", 0, 0, 0, gs, sl, 0, rnd, ef, pas) :
                sl \in 0 .. MaxShape, gs \in -1 .. MaxGrid,
                rnd \in BOOLEAN, ef \in Pcts, pas \in BOOLEAN } :
        c.randomize => (c.grid_size <= MaxRandGrid /\ c.side_length <= MaxRandShape) }

SunflowerCalls ==
    { Call("sunflower", 0, 0, rad, gs, 0, n, rnd, ef, pas) :
        n \in 0 .. MaxPoints, rad \in 0 .. MaxShape, gs \in -1 .. MaxGrid,
        rnd \in BOOLEAN, ef \in Pcts, pas \in BOOLEAN }

Init ==
    /\ call \in RectangularCalls \cup HexagonalCalls \cup CircularCalls
                  \cup OctagonalCalls \cup SunflowerCalls
    /\ pc = "call"
    /\ ret = NoneResult
    /\ UIConstructed

CallRectangular ==
    /\ pc = "call"
    /\ call.fn = "rectangular"
    /\ \E r \in Results(call) : ret' = r
    /\ pc' = "done"
    /\ UNCHANGED <<call, uiVars>>

CallHexagonal ==
    /\ pc = "call"
    /\ call.fn = "hexagonal"
    /\ \E r \in Results(call) : ret' = r
    /\ pc' = "done"
    /\ UNCHANGED <<call, uiVars>>

CallCircular ==
    /\ pc = "call"
    /\ call.fn = "circular"
    /\ \E r \in Results(call) : ret' = r
    /\ pc' = "done"
    /\ UNCHANGED <<call, uiVars>>

CallOctagonal ==
    /\ pc = "call"
    /\ call.fn = "octagonal"
    /\ \E r \in Results(call) : ret' = r
    /\ pc' = "done"
    /\ UNCHANGED <<call, uiVars>>

CallSunflower ==
    /\ pc = "call"
    /\ call.fn = "sunflower"
    /\ \E r \in Results(call) : ret' = r
    /\ pc' = "done"
    /\ UNCHANGED <<call, uiVars>>

Next ==
    \/ CallRectangular
    \/ CallHexagonal
    \/ CallCircular
    \/ CallOctagonal
    \/ CallSunflower

Spec == Init /\ [][Next]_vars

\* ------------------------------------------------------- specification (UI)

InitUI ==
    /\ call = NoCall
    /\ pc = "done"
    /\ ret = NoneResult
    /\ UIConstructed

NextUI ==
    \/ update_inputs
    \/ SetSpin
    \/ toggle_empty_fraction
    \/ ClickPassive
    \/ MoveSlider
    \/ generate_array
    \/ preview_array

SpecUI == InitUI /\ [][NextUI]_vars

\* ------------------------------------------------------------------ claims

\* The shapes as the specification states them, for a cell p = <<i, j>>.
InsideHexagon(radius, p) ==
    Max(0, radius - p[1]) <= p[2] /\ p[2] < (2 * radius + 1) - Max(0, p[1] - radius)
InsideCircle(grid_size, radius, p) ==
    LET c == grid_size \div 2
    IN  (p[1] - c) * (p[1] - c) + (p[2] - c) * (p[2] - c) <= radius * radius
InsideOctagon(grid_size, side_length, p) ==
    LET c == grid_size \div 2
        sum == Abs(p[1] - c) + Abs(p[2] - c)
        far == Max(Abs(p[1] - c), Abs(p[2] - c))
    IN  /\ (sum <= side_length \/ 2 * (sum - side_length) * (sum - side_length) <= side_length * side_length)
        /\ far * far <= 2 * side_length * side_length

\* The in-region cells of the grid a returned call produced.
Region(c, g) ==
    { p \in Indices(g.rows, g.cols) :
        CASE c.fn = "rectangular" -> TRUE
          [] c.fn = "hexagonal" -> InsideHexagon(c.radius, p)
          [] c.fn = "circular" -> InsideCircle(c.grid_size, c.radius, p)
          [] c.fn = "octagonal" -> InsideOctagon(c.grid_size, c.side_length, p)
          [] OTHER -> FALSE }

CellsIn(g, states) == { p \in Indices(g.rows, g.cols) : g.cells[p] \in states }

ValidFraction(c) == 0 <= c.empty_fraction /\ c.empty_fraction <= 100

\* The shape parameters are positive, as the specification asks of a call.
ValidShape(c) ==
    CASE c.fn = "rectangular" -> c.rows >= 1 /\ c.columns >= 1
      [] c.fn = "hexagonal" -> c.radius >= 1
      [] c.fn = "circular" -> c.grid_size >= 1
      [] c.fn = "octagonal" -> c.grid_size >= 1
      [] c.fn = "sunflower" -> c.grid_size >= 1 /\ c.n_points >= 1
      [] OTHER -> FALSE

Returned == pc = "done"

\* C1: a rectangular or hexagonal call with randomize=True and
\* empty_fraction f in [0,1] returns a grid in which exactly floor(N*f) of
\* the N in-region cells are non-Active and all other in-region cells are
\* Active, whatever sample was drawn (N = rows*columns, or the number of
\* in-hexagon positions).
C1_FixedCount ==
    (Returned /\ call.fn \in {"rectangular", "hexagonal"} /\ call.randomize
        /\ ValidShape(call) /\ ValidFraction(call))
    => /\ ret.kind = "grid"
       /\ LET region == Region(call, ret)
              N == IF call.fn = "rectangular" THEN call.rows * call.columns
                   ELSE 3 * call.radius * call.radius + 3 * call.radius + 1
          IN  /\ Cardinality(region) = N
              /\ Cardinality(region \ CellsIn(ret, {"Active"}))
                   = (N * call.empty_fraction) \div 100

C1_Witness ==
    /\ Returned /\ call.fn = "hexagonal" /\ call.randomize
    /\ call.radius = 1 /\ call.empty_fraction = 50 /\ ret.kind = "grid"
    /\ Cardinality(Region(call, ret) \ CellsIn(ret, {"Active"})) = 3
    /\ ret.cells[<<1, 1>>] # "Active"

\* The parameters the specification calls invalid.
InvalidParameters(c) == ~ValidFraction(c) \/ ~ValidShape(c)

\* C2: a generator call with invalid parameters (empty_fraction outside
\* [0,1], a non-positive grid dimension, n_points = 0) fails with an error
\* and never returns a grid or any other value.  Every raised exception is
\* counted as the failure the claim asks for.
C2_InvalidFails ==
    (Returned /\ InvalidParameters(call)) => ret.kind \notin {"grid", "None"}

\* Sum over rows 0 .. n-1 of the row width end - start.
RECURSIVE SumRowWidths(_, _)
SumRowWidths(radius, n) ==
    IF n <= 0 THEN 0
    ELSE SumRowWidths(radius, n - 1)
           + (((2 * radius + 1) - Max(0, (n - 1) - radius)) - Max(0, radius - (n - 1)))

\* C3: a hexagonal call with radius >= 1 and randomize=False returns a
\* square grid of side 2*radius+1 in which cell (i,j) is Active iff
\* max(0, radius-i) <= j < size - max(0, i-radius) and Empty otherwise; the
\* Active count is the sum of the row widths, and (radius, radius) is Active.
C3_HexagonShape ==
    (Returned /\ call.fn = "hexagonal" /\ ~call.randomize /\ call.radius >= 1)
    => LET size == 2 * call.radius + 1
       IN  /\ ret.kind = "grid" /\ ret.rows = size /\ ret.cols = size
           /\ DOMAIN ret.cells = Indices(size, size)
           /\ \A i \in 0 .. size - 1 : \A j \in 0 .. size - 1 :
                 ret.cells[<<i, j>>] =
                    IF Max(0, call.radius - i) <= j /\ j < size - Max(0, i - call.radius)
                    THEN "Active" ELSE "Empty"
           /\ Cardinality(CellsIn(ret, {"Active"})) = SumRowWidths(call.radius, size)
           /\ ret.cells[<<call.radius, call.radius>>] = "Active"

C3_Witness ==
    /\ Returned /\ call.fn = "hexagonal" /\ ~call.randomize /\ call.radius = 2
    /\ ret.kind = "grid" /\ ret.rows = 5
    /\ Cardinality(CellsIn(ret, {"Active"})) = 19
    /\ ret.cells[<<0, 1>>] = "Empty" /\ ret.cells[<<0, 2>>] = "Active"
    /\ ret.cells[<<4, 3>>] = "Empty"

\* C4: an octagonal call with grid_size >= 1 and center = grid_size // 2:
\* with randomize=False a cell (i,j) is Active iff |i-center| + |j-center|
\* <= side_length*(1 + sqrt(2)/2) and max(|i-center|, |j-center|) <=
\* side_length*sqrt(2); a cell failing either bound is Empty under every
\* option setting.
C4_OctagonShape ==
    (Returned /\ call.fn = "octagonal" /\ call.grid_size >= 1)
    => /\ ret.kind = "grid"
       /\ ret.rows = call.grid_size /\ ret.cols = call.grid_size
       /\ \A p \in Indices(call.grid_size, call.grid_size) :
             /\ ~InsideOctagon(call.grid_size, call.side_length, p)
                  => ret.cells[p] = "Empty"
             /\ (~call.randomize /\ InsideOctagon(call.grid_size, call.side_length, p))
                  => ret.cells[p] = "Active"

C4_Witness ==
    /\ Returned /\ call.fn = "octagonal" /\ ~call.randomize
    /\ call.grid_size = 6 /\ call.side_length = 2 /\ ret.kind = "grid"
    /\ ret.cells[<<3, 3>>] = "Active" /\ ret.cells[<<1, 2>>] = "Active"
    /\ ret.cells[<<0, 3>>] = "Empty"   \* within the diamond, beyond the square
    /\ ret.cells[<<1, 1>>] = "Empty"   \* within the square, beyond the diamond

\* C5: a circular call with center = grid_size // 2: a cell farther than
\* radius from (center, center) is Empty under every option setting; with
\* randomize=False a cell within radius is Active; with radius = 0 and
\* grid_size = 5 only (2,2) is Active and every other cell is Empty.
C5_CircleShape ==
    (Returned /\ call.fn = "circular" /\ call.grid_size >= 1)
    => /\ ret.kind = "grid"
       /\ ret.rows = call.grid_size /\ ret.cols = call.grid_size
       /\ \A p \in Indices(call.grid_size, call.grid_size) :
             /\ ~InsideCircle(call.grid_size, call.radius, p)
                  => ret.cells[p] = "Empty"
             /\ (~call.randomize /\ InsideCircle(call.grid_size, call.radius, p))
                  => ret.cells[p] = "Active"
       /\ (~call.randomize /\ call.radius = 0 /\ call.grid_size = 5)
            => /\ CellsIn(ret, {"Active"}) = {<<2, 2>>}
               /\ CellsIn(ret, {"Empty"}) = Indices(5, 5) \ {<<2, 2>>}

C5_Witness ==
    /\ Returned /\ call.fn = "circular" /\ ~call.randomize
    /\ call.radius = 0 /\ call.grid_size = 5 /\ ret.kind = "grid"
    /\ ret.cells[<<2, 2>>] = "Active"
    /\ Cardinality(CellsIn(ret, {"Empty"})) = 24

\* C6: a rectangular, hexagonal, circular or octagonal call with
\* randomize=True, empty_fraction=1.0 and passive=True returns a grid in
\* which every in-region cell is Passive and the Empty cells are exactly the
\* cells outside the shape.
C6_AllPassive ==
    (Returned /\ call.fn \in {"rectangular", "hexagonal", "circular", "octagonal"}
        /\ ValidShape(call)
        /\ call.randomize /\ call.empty_fraction = 100 /\ call.passive)
    => /\ ret.kind = "grid"
       /\ CellsIn(ret, {"Passive"}) = Region(call, ret)
       /\ CellsIn(ret, {"Empty"}) = Indices(ret.rows, ret.cols) \ Region(call, ret)
       /\ CellsIn(ret, {"Active"}) = {}

C6_Witness ==
    /\ Returned /\ call.fn = "circular" /\ call.grid_size = 3 /\ call.radius = 1
    /\ call.randomize /\ call.empty_fraction = 100 /\ call.passive
    /\ ret.kind = "grid"
    /\ Cardinality(CellsIn(ret, {"Passive"})) = 5
    /\ Cardinality(CellsIn(ret, {"Empty"})) = 4

\* C7: the grid any of the five generators returns holds a Passive cell
\* only if the call had randomize=True and passive=True; otherwise every
\* cell is Active or Empty, every in-region cell that is not Active is
\* Empty, and without randomize no in-region cell is removed.
C7_PassiveOnlyWhenAsked ==
    (Returned /\ ret.kind = "grid")
    => /\ CellsIn(ret, {"Passive"}) # {} => (call.randomize /\ call.passive)
       /\ ~(call.randomize /\ call.passive)
            => \A p \in Indices(ret.rows, ret.cols) : ret.cells[p] \in {"Active", "Empty"}
       /\ (~call.randomize /\ call.fn # "sunflower")
            => CellsIn(ret, {"Active"}) = Region(call, ret)

C7_Witness ==
    /\ Returned /\ call.fn = "rectangular" /\ call.randomize /\ ~call.passive
    /\ call.rows = 2 /\ call.columns = 3 /\ call.empty_fraction = 50
    /\ ret.kind = "grid"
    /\ Cardinality(CellsIn(ret, {"Empty"})) = 3
    /\ CellsIn(ret, {"Passive"}) = {}

\* The number of candidates and the number of cells the call asks to empty.
Candidates(c) ==
    IF c.fn = "rectangular" THEN c.rows * c.columns
    ELSE 3 * c.radius * c.radius + 3 * c.radius + 1
Requested(c) == (Candidates(c) * c.empty_fraction) \div 100

\* C8: a rectangular or hexagonal call with randomize=True whose
\* empty_fraction asks for more empty cells than there are candidates does
\* not crash: the sample is limited to the candidates and a grid is returned.
C8_SampleLimited ==
    (Returned /\ call.fn \in {"rectangular", "hexagonal"} /\ call.randomize
        /\ ValidShape(call) /\ Requested(call) > Candidates(call))
    => ret.kind = "grid"

C10_CacheDiscipline ==
    [][ /\ (last' = "generate_array" /\ ~LenIsZero(array))
            => (call' = NoCall /\ array' = array /\ printed' = array)
        /\ (last' = "generate_array" /\ call' # NoCall) => LenIsZero(array)
        /\ last' = "preview_array"
            => (call' # NoCall /\ ret'.kind = "grid" /\ array' = ret'
                /\ previewed' = ret')
        /\ (last' = "generate_array" /\ previewed.kind = "grid")
            => (printed' = previewed /\ array' = previewed)
        /\ last' = "update_inputs" => (array' = EmptyList /\ previewed' = Nothing)
      ]_vars

C10_Witness ==
    /\ last = "generate_array" /\ array_type = "Rectangular"
    /\ previewed.kind = "grid" /\ printed = previewed
    /\ printed.rows = 1 /\ spins.rows = 2
    /\ printed.cells[<<0, 0>>] = "Active"
    /\ randomize_check /\ passive_cell_radio.checked /\ empty_fraction_slider = 100

\* The generator that belongs to each array type of the combo box.
GeneratorOf(type) ==
    CASE type = "Rectangular" -> "rectangular"
      [] type = "Circular" -> "circular"
      [] type = "Octagonal" -> "octagonal"
      [] type = "Hexagonal" -> "hexagonal"
      [] type = "Sunflower" -> "sunflower"

\* C11: when Generate runs while self.array is empty, then for each of the
\* five array types the matching generator is called with the current shape
\* parameters, randomize flag, empty fraction and passive flag, it returns a
\* grid, and that grid becomes the cached grid that Generate prints.
C11_GenerateInvokes ==
    [][ (last' = "generate_array" /\ LenIsZero(array))
        => /\ call'.fn = GeneratorOf(array_type)
           /\ call'.randomize = randomize_check
           /\ call'.empty_fraction = empty_fraction_slider
           /\ call'.passive = passive_cell_radio.checked
           /\ \A n \in SpinsOf(array_type) : call'[n] = spins[n]
           /\ ret'.kind = "grid"
           /\ array' = ret'
           /\ printed' = ret'
      ]_vars

\* C12: in every reachable UI state Passive Cell checked implies Randomize
\* checked, and Passive Cell is enabled iff Randomize is checked; so no
\* generator call made from the UI has passive=True with randomize=False.
C12_PassiveNeedsRandomize ==
    /\ passive_cell_radio.checked => randomize_check
    /\ passive_cell_radio.enabled <=> randomize_check
    /\ call # NoCall
         => /\ call.randomize = randomize_check
            /\ call.passive = passive_cell_radio.checked
            /\ ~(call.passive /\ ~call.randomize)

C12_Witness ==
    /\ last = "preview_array" /\ call # NoCall
    /\ randomize_check /\ passive_cell_radio.checked /\ passive_cell_radio.enabled
    /\ call.passive /\ call.randomize /\ ret.kind = "grid"
    /\ array_type = "Circular" /\ empty_fraction_slider = 100
    /\ ret.cells[<<0, 0>>] = "Passive"

====
